---- MODULE Spec2Model ----
(***************************************************************************)
(* GoDeployer: a polling file watcher (FileWatcher) that turns successive  *)
(* directory snapshots into created/modified/deleted events, and a process *)
(* supervisor (Deployer) that reacts to those events by killing and        *)
(* restarting one child process.                                           *)
(*                                                                         *)
(* Strings are sequences of one-character strings, so that                 *)
(* filepath.Clean and strings.HasPrefix are computed, not assumed.         *)
(* Time is counted in seconds while Kill waits in its select, which is     *)
(* taken to notice an exit or its timeout within the second it happens in; *)
(* when an exit monitor gets to run is left open.                          *)
(*                                                                         *)
(* Spec         the program as main wires it, no interrupt arriving        *)
(* FairSpec     Spec with the scheduling of its goroutines                 *)
(* ShutdownSpec Spec with interrupts, unmountShare and os.Exit             *)
(* BusSpec      the watcher alone with any subscribers                     *)
(* RaceSpec     the Deployer alone with two callers of Redeploy            *)
(***************************************************************************)
EXTENDS Integers, Sequences, FiniteSets, TLC

VARIABLES
    disk,          \* the watched tree: relative path -> FileState
    cfgFile,       \* what reading and parsing deploy.json yields right now
    edits,         \* number of changes and access errors of the tree so far
    knownFiles,    \* pollloop: the stored snapshot
    currentFiles,  \* scanFiles: the snapshot being collected
    isInitial,     \* scanFiles: the isInitial argument of the running scan
    walkIdx,       \* scanFiles: index in walk order of the next path to visit
    delPending,    \* scanFiles: known paths the deleted loop has not visited
    emitted,       \* events passed to Notify by the running scan, in order
    pc,            \* position of each caller of the supervisor
    ret,           \* where Notify returns to in scanFiles
    event,         \* Handle: the event being handled
    Config,        \* Deployer.Config: <<>> is nil, <<c>> points to c
    currentCmd,    \* Deployer.currentCmd: Nil or a pid
    isRunning,     \* Deployer.isRunning
    cmdMutex,      \* Deployer.cmdMutex: Free or its holder
    procs,         \* pid -> "unborn", "alive", "exited" (no Wait has seen it),
                   \*        "reaped" (the monitor's Wait has returned),
                   \*        "gone" (the monitor has cleared isRunning)
    timer,         \* Kill: seconds elapsed in the select
    lastKill,      \* observation of the latest Kill call
    lastGood,      \* observation: result of the latest successful load
    h,             \* observation of the latest Handle call
    subscribers,   \* FileWatcher.subscribers, in subscription order
    subIdx,        \* Notify: index of the subscriber the loop has reached
    delivered,     \* observation: per subscriber, the events its handler was
                   \* called with during the running scan, in order
    mainPc,        \* position of main in StartPolling
    sigChan,       \* StartPolling: number of signals buffered in sigChan
    mounted,       \* whether the share is mounted
    unmounts       \* number of calls of unmountShare

vars == <<disk, cfgFile, edits, knownFiles, currentFiles, isInitial, walkIdx,
          delPending, emitted, pc, ret, event, Config, currentCmd, isRunning,
          cmdMutex, procs, timer, lastKill, lastGood, h, subscribers, subIdx,
          delivered, mainPc, sigChan, mounted, unmounts>>

-----------------------------------------------------------------------------
(* Bounds *)

\* number of changes and access errors the environment inflicts on the tree
MaxEdits == 2
\* file sizes range over 1..MaxSize
MaxSize == 2
\* modification times range over 1..MaxTime
MaxTime == 2
\* number of child processes started in one run
MaxProcs == 2

-----------------------------------------------------------------------------
(* Program constants *)

\* a nil *exec.Cmd
Nil == 0
\* time.After(5 * time.Second)
GracePeriod == 5
\* const CONFIG_ID = "deploy.json", abbreviated to one name of one letter
CONFIG_ID == <<"d">>

Free == "free"
Poll == "poll"

-----------------------------------------------------------------------------
(* path/filepath and strings *)

\* strings.HasPrefix(s, prefix)
HasPrefix(s, prefix) ==
    /\ Len(prefix) <= Len(s)
    /\ SubSeq(s, 1, Len(prefix)) = prefix

\* the elements of a path between its separators
RECURSIVE SplitPath(_)
SplitPath(s) ==
    IF s = <<>> THEN << <<>> >>
    ELSE LET r == SplitPath(Tail(s))
         IN  IF Head(s) = "/" THEN << <<>> >> \o r
             ELSE << <<Head(s)>> \o Head(r) >> \o Tail(r)

\* filepath.Clean's pass over the elements: drop empty and "." elements,
\* let ".." remove the element before it
RECURSIVE CleanElems(_, _, _)
CleanElems(elems, out, rooted) ==
    IF elems = <<>> THEN out
    ELSE LET e == Head(elems)
             rest == Tail(elems)
         IN  IF e = <<>> \/ e = <<".">> THEN CleanElems(rest, out, rooted)
             ELSE IF e = <<".", ".">>
             THEN IF out # <<>> /\ out[Len(out)] # <<".", ".">>
                  THEN CleanElems(rest, SubSeq(out, 1, Len(out) - 1), rooted)
                  ELSE IF rooted THEN CleanElems(rest, out, rooted)
                  ELSE CleanElems(rest, Append(out, e), rooted)
             ELSE CleanElems(rest, Append(out, e), rooted)

RECURSIVE JoinPath(_)
JoinPath(elems) ==
    IF elems = <<>> THEN <<>>
    ELSE IF Len(elems) = 1 THEN Head(elems)
    ELSE Head(elems) \o <<"/">> \o JoinPath(Tail(elems))

\* filepath.Clean(path)
Clean(path) ==
    LET rooted == path # <<>> /\ Head(path) = "/"
        body == JoinPath(CleanElems(SplitPath(path), <<>>, rooted))
    IN  IF rooted THEN <<"/">> \o body
        ELSE IF body = <<>> THEN <<".">>
        ELSE body

-----------------------------------------------------------------------------
(* The watched tree *)

\* relative paths of the files that may exist under the share, in the
\* lexical order filepath.Walk visits them
WalkOrder == << CONFIG_ID, <<"s", "/", "a">>, <<"s", "x">> >>
Paths == {WalkOrder[i] : i \in 1..Len(WalkOrder)}

\* type FileState struct
FileState == [ModTime : 1..MaxTime, Size : 1..MaxSize]

\* type DeployConfig struct: the field that event handling reads
SourceLocations == { <<"s">>, <<"s", "/">>, <<>> }
DeployConfig == [SourceLocation : SourceLocations]

\* outcomes of os.ReadFile followed by json.Unmarshal on deploy.json
CfgFiles == [kind : {"ok"}, cfg : DeployConfig]
            \cup [kind : {"unreadable", "badjson"}, cfg : {[SourceLocation |-> <<>>]}]

\* type FileChangeEvent struct (FullPath is sharePath joined with RelPath)
FileChangeEvent(type, relPath, size, modTime) ==
    [ChangeType |-> type, RelPath |-> relPath, Size |-> size, ModTime |-> modTime]

NoEvent == FileChangeEvent("none", <<>>, 0, 0)

\* what is observed of a Handle call until it returns: the event, the
\* configuration it classified the event under, and the calls it made
NoHandle == [ev |-> NoEvent, cfg |-> << >>, redeploys |-> 0, kills |-> 0,
             deploys |-> 0, done |-> FALSE]

\* a Go map with one more key
MapPut(m, k, v) == [x \in DOMAIN m \cup {k} |-> IF x = k THEN v ELSE m[x]]
\* a Go map without a key
MapDelete(m, k) == [x \in DOMAIN m \ {k} |-> m[x]]
EmptyMap == [x \in {} |-> 0]

-----------------------------------------------------------------------------
(* FileWatcher.scanFiles: the pure parts *)

\* a modified test that asks for both fields to differ
IsModifiedBoth(oldState, state) ==
    oldState.ModTime # state.ModTime /\ oldState.Size # state.Size

\* the modified test of the walk callback
IsModified(oldState, state) ==
    oldState.ModTime # state.ModTime \/ oldState.Size # state.Size

\* a walk callback that does not look at isInitial
WalkEventsNoBaseline(known, relPath, state, initial) ==
    IF relPath \in DOMAIN known
    THEN IF known[relPath].ModTime # state.ModTime \/ known[relPath].Size # state.Size
         THEN << FileChangeEvent("modified", relPath, state.Size, state.ModTime) >>
         ELSE << >>
    ELSE << FileChangeEvent("created", relPath, state.Size, state.ModTime) >>

\* the events the walk callback passes to Notify for one regular file
WalkEvents(known, relPath, state, initial) ==
    IF relPath \in DOMAIN known
    THEN IF IsModified(known[relPath], state)
         THEN << FileChangeEvent("modified", relPath, state.Size, state.ModTime) >>
         ELSE << >>
    ELSE IF ~initial
         THEN << FileChangeEvent("created", relPath, state.Size, state.ModTime) >>
         ELSE << >>

\* a deleted loop without the test `_, exists := currentFiles[relPath]`
DeletedPathsNoTest(known, current, initial) ==
    IF ~initial THEN DOMAIN known ELSE {}

\* the paths for which the deleted loop passes an event to Notify
DeletedPaths(known, current, initial) ==
    IF ~initial THEN DOMAIN known \ DOMAIN current ELSE {}

\* "Update known files": for k, v := range currentFiles { knownFiles[k] = v }
MergeCurrent(known, current) ==
    [k \in DOMAIN known \cup DOMAIN current |->
        IF k \in DOMAIN current THEN current[k] ELSE known[k]]

\* a scan that keeps the paths that are gone
RemoveDeletedNone(known, current) == known

\* "Remove deleted files from map"
RemoveDeleted(known, current) ==
    [k \in DOMAIN known \cap DOMAIN current |-> known[k]]

-----------------------------------------------------------------------------
(* Deployer: the pure parts *)

\* LoadDeployConfig(share, false): nil when the file cannot be read or parsed
LoadDeployConfig(file) ==
    IF file.kind = "unreadable" THEN << >>
    ELSE IF file.kind = "badjson" THEN << >>
    ELSE << file.cfg >>

\* a reloadConfig without the test `cfg != nil`
reloadConfigNoTest(config, file) ==
    IF file.kind = "ok" THEN << file.cfg >> ELSE << >>

\* Deployer.reloadConfig: the value of d.Config afterwards
reloadConfig(config, file) ==
    LET cfg == LoadDeployConfig(file)
    IN  IF cfg # << >> THEN cfg ELSE config

\* Deployer.isSourceFile
isSourceFile(config, relPath) ==
    HasPrefix(Clean(relPath), Clean(config[1].SourceLocation))

\* os.Process.Signal and os.Process.Kill fail with ErrProcessDone once a
\* Wait has observed the exit of the process
ProcessDone(state) == state \in {"reaped", "gone"}

Alive == {p \in DOMAIN procs : procs[p] = "alive"}

\* pid of the next process exec.Cmd.Start creates
NextPid == Cardinality({p \in DOMAIN procs : procs[p] # "unborn"}) + 1

\* what is observed of a Kill call until Redeploy goes on to Deploy: its
\* path, the process it is about, the signals it delivered, the second of the
\* wait in which that process exited, the second of the forced termination,
\* and whether Kill returned an error
NoKill == [path |-> "none", pid |-> Nil, sigs |-> {}, forcedAt |-> -1, exitAt |-> -1,
           err |-> FALSE]

\* a timeout that fires one second early
TimeoutFiredEarly(elapsed) == elapsed >= GracePeriod - 1

\* a select without its timeout case
TimeoutNever(elapsed) == FALSE

\* case <-time.After(5 * time.Second)
TimeoutFired(elapsed) == elapsed = GracePeriod

\* case <-done: Kill's cmd.Wait() returns once the process has exited
WaitReturned(state) == state # "alive"

\* a timeout branch that only logs and does not terminate the process
ForceKillSkipped(ps, pid) == ps

\* os.Process.Kill: SIGKILL ends a process that is still alive
ForceKill(ps, pid) ==
    IF ps[pid] = "alive" THEN [ps EXCEPT ![pid] = "exited"] ELSE ps

-----------------------------------------------------------------------------
(* Initial state: main has mounted the share, NewDeployer has loaded the   *)
(* configuration (a failure there panics), Handle is subscribed and        *)
(* pollloop is about to run its initial scan.  No process is deployed.     *)

WatcherInit ==
    /\ disk = [p \in Paths |-> [ModTime |-> 1, Size |-> 1]]
    /\ cfgFile \in [kind : {"ok"}, cfg : DeployConfig]
    /\ edits = 0
    /\ knownFiles = EmptyMap
    /\ currentFiles = EmptyMap
    /\ isInitial = TRUE
    /\ walkIdx = 1
    /\ delPending = {}
    /\ emitted = << >>
    /\ ret = "walk"
    /\ event = NoEvent

\* NewDeployer: the configuration is loaded, no process is deployed
DeployerInit ==
    /\ Config = LoadDeployConfig(cfgFile)
    /\ lastGood = Config
    /\ currentCmd = Nil
    /\ isRunning = FALSE
    /\ cmdMutex = Free
    /\ procs = [p \in 1..MaxProcs |-> "unborn"]
    /\ timer = 0
    /\ lastKill = NoKill
    /\ h = NoHandle

\* main has mounted the share and waits in the select of StartPolling
MainInit ==
    /\ mainPc = "select"
    /\ sigChan = 0
    /\ mounted = TRUE
    /\ unmounts = 0

\* filewatcher.Subscribe(deployer.Handle): Handle is the one subscriber
Init ==
    /\ WatcherInit
    /\ DeployerInit
    /\ MainInit
    /\ pc = [t \in {Poll} |-> "start"]
    /\ subscribers = <<"Handle">>
    /\ subIdx = 0
    /\ delivered = << >>

watcherVars == <<knownFiles, currentFiles, isInitial, walkIdx, delPending, emitted>>
deployerVars == <<Config, currentCmd, isRunning, cmdMutex, procs, timer,
                  lastKill, lastGood, h>>
envVars == <<disk, cfgFile, edits>>
busVars == <<subscribers, subIdx, delivered>>
mainVars == <<mainPc, sigChan, mounted, unmounts>>

-----------------------------------------------------------------------------
(* The environment: other hosts change the share *)

\* The walk reads each file once per scan and nothing else reads the tree: a
\* change made during a scan is seen by that scan as if made before it, or by
\* the next as if made after it.  Changes are therefore taken between scans.
BetweenScans == pc[Poll] \in {"start", "ticker"}

\* deploy.json is read a second time by the reload that follows its event
BeforeReload == pc[Poll] = "handle" /\ event.RelPath = CONFIG_ID

\* how a write changes what os.FileInfo reports for the file
WriteKinds == {"size", "time"}

\* the FileState of a file after a write of the given kind
Written(files, p, kind) ==
    IF p \notin DOMAIN files THEN [ModTime |-> 1, Size |-> 1]
    ELSE [ModTime |-> IF kind \in {"time", "both"}
                      THEN (files[p].ModTime % MaxTime) + 1 ELSE files[p].ModTime,
          Size |-> IF kind \in {"size", "both"}
                   THEN (files[p].Size % MaxSize) + 1 ELSE files[p].Size]

\* a file other than the configuration is created, or written so that its
\* size or its modification time changes
EnvWrite ==
    /\ edits < MaxEdits
    /\ BetweenScans
    /\ \E p \in Paths \ {CONFIG_ID}, kind \in WriteKinds :
          disk' = MapPut(disk, p, Written(disk, p, kind))
    /\ edits' = edits + 1
    /\ UNCHANGED <<busVars, mainVars,
                   cfgFile, watcherVars, deployerVars, pc, ret, event>>

\* deploy.json is rewritten: its size and its modification time change
EnvWriteConfig ==
    /\ edits < MaxEdits
    /\ BetweenScans \/ BeforeReload
    /\ \E f \in CfgFiles :
          /\ f.kind # "unreadable"
          /\ disk' = MapPut(disk, CONFIG_ID, Written(disk, CONFIG_ID, "both"))
          /\ cfgFile' = f
    /\ edits' = edits + 1
    /\ UNCHANGED <<busVars, mainVars,
                   watcherVars, deployerVars, pc, ret, event>>

\* a file is removed
EnvRemove ==
    /\ edits < MaxEdits
    /\ \E p \in DOMAIN disk :
          /\ BetweenScans \/ (BeforeReload /\ p = CONFIG_ID)
          /\ disk' = MapDelete(disk, p)
          /\ cfgFile' = IF p = CONFIG_ID
                        THEN [kind |-> "unreadable", cfg |-> [SourceLocation |-> << >>]]
                        ELSE cfgFile
    /\ edits' = edits + 1
    /\ UNCHANGED <<busVars, mainVars,
                   watcherVars, deployerVars, pc, ret, event>>

-----------------------------------------------------------------------------
(* FileWatcher.pollloop and FileWatcher.scanFiles *)

BeginScan(initial) ==
    /\ currentFiles' = EmptyMap
    /\ isInitial' = initial
    /\ walkIdx' = 1
    /\ delPending' = {}
    /\ emitted' = << >>
    /\ pc' = [pc EXCEPT ![Poll] = "walk"]
    /\ UNCHANGED <<busVars, mainVars,
                   knownFiles, ret, event, envVars, deployerVars>>

\* "Do initial scan": fw.scanFiles(fw.Path, knownFiles, true)
InitialScan ==
    /\ pc[Poll] = "start"
    /\ BeginScan(TRUE)

\* a timer that starts scanFiles itself, wherever the loop is
TickerScanOnTick == BeginScan(FALSE)

\* for range ticker.C { fw.scanFiles(fw.Path, knownFiles, false) }
TickerScan ==
    /\ pc[Poll] = "ticker"
    /\ BeginScan(FALSE)

\* FileWatcher.Notify from scanFiles: the one subscriber, Deployer.Handle,
\* runs before Notify returns to `back`
Notify(ev, back) ==
    /\ emitted' = Append(emitted, ev)
    /\ event' = ev
    /\ ret' = back
    /\ pc' = [pc EXCEPT ![Poll] = "handle"]

\* the walk callback on a regular file
WalkVisit ==
    /\ pc[Poll] = "walk"
    /\ walkIdx <= Len(WalkOrder)
    /\ WalkOrder[walkIdx] \in DOMAIN disk
    /\ LET relPath == WalkOrder[walkIdx]
           state == disk[relPath]
           evs == WalkEvents(knownFiles, relPath, state, isInitial)
       IN  /\ currentFiles' = MapPut(currentFiles, relPath, state)
           /\ walkIdx' = walkIdx + 1
           /\ IF evs # << >>
              THEN Notify(evs[1], "walk")
              ELSE UNCHANGED <<emitted, event, ret, pc>>
    /\ UNCHANGED <<busVars, mainVars,
                   knownFiles, isInitial, delPending, envVars, deployerVars>>

\* the walk callback called with err != nil: the path is logged and skipped
WalkError ==
    /\ pc[Poll] = "walk"
    /\ walkIdx <= Len(WalkOrder)
    /\ WalkOrder[walkIdx] \in DOMAIN disk
    /\ edits < MaxEdits
    /\ edits' = edits + 1
    /\ walkIdx' = walkIdx + 1
    /\ UNCHANGED <<busVars, mainVars,
                   disk, cfgFile, knownFiles, currentFiles, isInitial, delPending,
                   emitted, event, ret, pc, deployerVars>>

\* a path that is not in the tree is not visited
WalkAbsent ==
    /\ pc[Poll] = "walk"
    /\ walkIdx <= Len(WalkOrder)
    /\ WalkOrder[walkIdx] \notin DOMAIN disk
    /\ walkIdx' = walkIdx + 1
    /\ UNCHANGED <<busVars, mainVars,
                   knownFiles, currentFiles, isInitial, delPending, emitted, event,
                   ret, pc, envVars, deployerVars>>

\* filepath.Walk has returned: "Check for deleted files"
WalkDone ==
    /\ pc[Poll] = "walk"
    /\ walkIdx > Len(WalkOrder)
    /\ delPending' = DeletedPaths(knownFiles, currentFiles, isInitial)
    /\ pc' = [pc EXCEPT ![Poll] = "deleted"]
    /\ UNCHANGED <<busVars, mainVars,
                   knownFiles, currentFiles, isInitial, walkIdx, emitted, event, ret,
                   envVars, deployerVars>>

\* the deleted loop reaches, in map order, a path that is gone
DeletedNotify ==
    /\ pc[Poll] = "deleted"
    /\ \E relPath \in delPending :
          /\ delPending' = delPending \ {relPath}
          /\ Notify(FileChangeEvent("deleted", relPath, 0, 0), "deleted")
    /\ UNCHANGED <<busVars, mainVars,
                   knownFiles, currentFiles, isInitial, walkIdx, envVars, deployerVars>>

\* the deleted loop is over: the stored snapshot is updated, scanFiles returns
ScanFinish ==
    /\ pc[Poll] = "deleted"
    /\ delPending = {}
    /\ knownFiles' = RemoveDeleted(MergeCurrent(knownFiles, currentFiles), currentFiles)
    /\ pc' = [pc EXCEPT ![Poll] = "ticker"]
    /\ emitted' = << >>
    /\ UNCHANGED <<busVars, mainVars,
                   currentFiles, isInitial, walkIdx, delPending, event, ret,
                   envVars, deployerVars>>

-----------------------------------------------------------------------------
(* Deployer.Handle *)

\* Handle has returned and so has Notify: scanFiles goes on
NotifyReturns ==
    /\ pc[Poll] = "handled"
    /\ pc' = [pc EXCEPT ![Poll] = ret]
    /\ event' = NoEvent
    /\ h' = NoHandle
    /\ UNCHANGED <<busVars, mainVars,
                   envVars, watcherVars, ret, Config, currentCmd, isRunning, cmdMutex,
                   procs, timer, lastKill, lastGood>>

\* Handle has classified the event and, for n = 1, calls Redeploy
EnterHandle(n, cfg) ==
    h' = [ev |-> event, cfg |-> cfg, redeploys |-> n, kills |-> 0,
          deploys |-> 0, done |-> n = 0]

\* Deploy, Redeploy and Handle return to the caller of Notify
LeaveHandle(t) ==
    /\ pc' = [pc EXCEPT ![t] = "handled"]
    /\ h' = [h EXCEPT !.deploys = @ + 1, !.done = TRUE]

\* event.RelPath == CONFIG_ID: d.reloadConfig(); d.Redeploy()
HandleConfig(t) ==
    /\ pc[t] = "handle"
    /\ event.RelPath = CONFIG_ID
    /\ Config' = reloadConfig(Config, cfgFile)
    /\ lastGood' = IF LoadDeployConfig(cfgFile) # << >>
                   THEN LoadDeployConfig(cfgFile) ELSE lastGood
    /\ EnterHandle(1, reloadConfig(Config, cfgFile))
    /\ pc' = [pc EXCEPT ![t] = "kill"]
    /\ UNCHANGED <<busVars, mainVars,
                   envVars, watcherVars, ret, event, currentCmd, isRunning, cmdMutex,
                   procs, timer, lastKill>>

\* d.isSourceFile(event.RelPath): d.Redeploy()
HandleSource(t) ==
    /\ pc[t] = "handle"
    /\ event.RelPath # CONFIG_ID
    /\ isSourceFile(Config, event.RelPath)
    /\ EnterHandle(1, Config)
    /\ pc' = [pc EXCEPT ![t] = "kill"]
    /\ UNCHANGED <<busVars, mainVars,
                   envVars, watcherVars, ret, event, Config, lastGood, currentCmd,
                   isRunning, cmdMutex, procs, timer, lastKill>>

\* neither the configuration nor a source file: Handle returns
HandleIgnore(t) ==
    /\ pc[t] = "handle"
    /\ event.RelPath # CONFIG_ID
    /\ ~isSourceFile(Config, event.RelPath)
    /\ EnterHandle(0, Config)
    /\ pc' = [pc EXCEPT ![t] = "handled"]
    /\ UNCHANGED <<busVars, mainVars,
                   envVars, watcherVars, ret, event, Config, lastGood, currentCmd,
                   isRunning, cmdMutex, procs, timer, lastKill>>

-----------------------------------------------------------------------------
(* Deployer.Kill, called by Redeploy *)

\* a Kill that reports an error when there is no process
KillNoProcessFails(t) ==
    /\ pc[t] = "kill"
    /\ cmdMutex = Free
    /\ currentCmd = Nil
    /\ lastKill' = [NoKill EXCEPT !.path = "noproc", !.err = TRUE]
    /\ h' = [h EXCEPT !.kills = @ + 1]
    /\ pc' = [pc EXCEPT ![t] = "sleep"]
    /\ UNCHANGED <<busVars, mainVars,
                   envVars, watcherVars, ret, event, Config, lastGood, currentCmd,
                   isRunning, cmdMutex, procs, timer>>

\* d.currentCmd == nil: "No process to kill", return nil
KillNoProcess(t) ==
    /\ pc[t] = "kill"
    /\ cmdMutex = Free
    /\ currentCmd = Nil
    /\ lastKill' = [NoKill EXCEPT !.path = "noproc"]
    /\ h' = [h EXCEPT !.kills = @ + 1]
    /\ pc' = [pc EXCEPT ![t] = "sleep"]
    /\ UNCHANGED <<busVars, mainVars,
                   envVars, watcherVars, ret, event, Config, lastGood, currentCmd,
                   isRunning, cmdMutex, procs, timer>>

\* Signal(SIGTERM) fails, then Process.Kill() fails: return the error
KillSignalFails(t) ==
    /\ pc[t] = "kill"
    /\ cmdMutex = Free
    /\ currentCmd # Nil
    /\ ProcessDone(procs[currentCmd])
    /\ lastKill' = [NoKill EXCEPT !.path = "sigfail", !.pid = currentCmd, !.err = TRUE]
    /\ h' = [h EXCEPT !.kills = @ + 1]
    /\ pc' = [pc EXCEPT ![t] = "sleep"]
    /\ UNCHANGED <<busVars, mainVars,
                   envVars, watcherVars, ret, event, Config, lastGood, currentCmd,
                   isRunning, cmdMutex, procs, timer>>

\* Signal(SIGTERM) succeeds: Kill waits in the select, holding the lock
KillSignal(t) ==
    /\ pc[t] = "kill"
    /\ cmdMutex = Free
    /\ currentCmd # Nil
    /\ ~ProcessDone(procs[currentCmd])
    /\ cmdMutex' = t
    /\ timer' = 0
    /\ lastKill' = [NoKill EXCEPT !.path = "select", !.pid = currentCmd,
                                  !.sigs = {"SIGTERM"}]
    /\ pc' = [pc EXCEPT ![t] = "select"]
    /\ UNCHANGED <<busVars, mainVars,
                   envVars, watcherVars, ret, event, Config, lastGood, currentCmd,
                   isRunning, procs, h>>

\* d.currentCmd = nil; d.isRunning = false; return nil (and unlock)
KillReturn(t, path, sigs) ==
    /\ currentCmd' = Nil
    /\ isRunning' = FALSE
    /\ cmdMutex' = Free
    /\ timer' = 0
    /\ lastKill' = [lastKill EXCEPT !.path = path, !.sigs = @ \cup sigs,
                                    !.forcedAt = IF path = "timeout" THEN timer ELSE -1]
    /\ h' = [h EXCEPT !.kills = @ + 1]
    /\ pc' = [pc EXCEPT ![t] = "sleep"]

\* case <-done: "Process terminated successfully"
KillGraceful(t) ==
    /\ pc[t] = "select"
    /\ WaitReturned(procs[currentCmd])
    /\ KillReturn(t, "graceful", {})
    /\ UNCHANGED <<busVars, mainVars,
                   envVars, watcherVars, ret, event, Config, lastGood, procs>>

\* case <-time.After(5 * time.Second): d.currentCmd.Process.Kill()
KillTimeout(t) ==
    /\ pc[t] = "select"
    /\ TimeoutFired(timer)
    /\ procs' = ForceKill(procs, currentCmd)
    /\ KillReturn(t, "timeout",
                  IF ProcessDone(procs[currentCmd]) THEN {} ELSE {"SIGKILL"})
    /\ UNCHANGED <<busVars, mainVars,
                   envVars, watcherVars, ret, event, Config, lastGood>>

\* a second passes while Kill waits and the child has not exited
Tick ==
    /\ \E t \in DOMAIN pc : pc[t] = "select"
    /\ timer < GracePeriod
    /\ ~WaitReturned(procs[currentCmd])
    /\ timer' = timer + 1
    /\ UNCHANGED <<busVars, mainVars,
                   envVars, watcherVars, pc, ret, event, Config, lastGood, currentCmd,
                   isRunning, cmdMutex, procs, lastKill, h>>

-----------------------------------------------------------------------------
(* Deployer.Redeploy and Deployer.Deploy *)

\* time.Sleep(500 * time.Millisecond), then d.Deploy()
SleepDone(t) ==
    /\ pc[t] = "sleep"
    /\ pc' = [pc EXCEPT ![t] = "deploy"]
    /\ lastKill' = NoKill
    /\ UNCHANGED <<busVars, mainVars,
                   envVars, watcherVars, ret, event, Config, lastGood, currentCmd,
                   isRunning, cmdMutex, procs, timer, h>>

\* copyDir fails: "failed to copy source"
DeployCopyFails(t) ==
    /\ pc[t] = "deploy"
    /\ cmdMutex = Free
    /\ LeaveHandle(t)
    /\ UNCHANGED <<busVars, mainVars,
                   envVars, watcherVars, ret, event, Config, lastGood, currentCmd,
                   isRunning, cmdMutex, procs, timer, lastKill>>

\* cmd.Start fails: "failed to start executable"
DeployStartFails(t) ==
    /\ pc[t] = "deploy"
    /\ cmdMutex = Free
    /\ LeaveHandle(t)
    /\ UNCHANGED <<busVars, mainVars,
                   envVars, watcherVars, ret, event, Config, lastGood, currentCmd,
                   isRunning, cmdMutex, procs, timer, lastKill>>

\* a Deploy that starts the process and does not store its handle
DeployStartUnstored(t) ==
    /\ pc[t] = "deploy"
    /\ cmdMutex = Free
    /\ NextPid <= MaxProcs
    /\ procs' = [procs EXCEPT ![NextPid] = "alive"]
    /\ isRunning' = TRUE
    /\ pc' = [pc EXCEPT ![t] = "handled"]
    /\ h' = [h EXCEPT !.deploys = @ + 1, !.done = TRUE]
    /\ UNCHANGED <<busVars, mainVars,
                   envVars, watcherVars, ret, event, Config, lastGood, cmdMutex,
                   currentCmd, timer, lastKill>>

\* cmd.Start succeeds: d.currentCmd = cmd; d.isRunning = true; the exit
\* monitor goroutine starts in cmd.Wait()
DeployStart(t) ==
    /\ pc[t] = "deploy"
    /\ cmdMutex = Free
    /\ NextPid <= MaxProcs
    /\ procs' = [procs EXCEPT ![NextPid] = "alive"]
    /\ currentCmd' = NextPid
    /\ isRunning' = TRUE
    /\ LeaveHandle(t)
    /\ UNCHANGED <<busVars, mainVars,
                   envVars, watcherVars, ret, event, Config, lastGood, cmdMutex,
                   timer, lastKill>>

-----------------------------------------------------------------------------
(* The child processes and their exit monitors *)

\* a child exits: on its own, or after a signal
ChildExit ==
    /\ \E p \in DOMAIN procs :
          /\ procs[p] = "alive"
          /\ procs' = [procs EXCEPT ![p] = "exited"]
          /\ lastKill' = IF lastKill.path = "select" /\ lastKill.pid = p
                         THEN [lastKill EXCEPT !.exitAt = timer]
                         ELSE lastKill
    /\ UNCHANGED <<busVars, mainVars,
                   envVars, watcherVars, pc, ret, event, Config, lastGood, currentCmd,
                   isRunning, cmdMutex, timer, h>>

\* the monitor goroutine: err := cmd.Wait() returns
MonitorWaitReturns ==
    /\ \E p \in DOMAIN procs :
          /\ procs[p] = "exited"
          /\ procs' = [procs EXCEPT ![p] = "reaped"]
    /\ UNCHANGED <<busVars, mainVars,
                   envVars, watcherVars, pc, ret, event, Config, lastGood, currentCmd,
                   isRunning, cmdMutex, timer, lastKill, h>>

\* a monitor that also clears the handle
MonitorClearsHandle ==
    /\ cmdMutex = Free
    /\ \E p \in DOMAIN procs :
          /\ procs[p] = "reaped"
          /\ procs' = [procs EXCEPT ![p] = "gone"]
    /\ isRunning' = FALSE
    /\ currentCmd' = Nil
    /\ UNCHANGED <<busVars, mainVars,
                   envVars, watcherVars, pc, ret, event, Config, lastGood,
                   cmdMutex, timer, lastKill, h>>

\* the monitor goroutine: Lock(); d.isRunning = false; Unlock()
MonitorClears ==
    /\ cmdMutex = Free
    /\ \E p \in DOMAIN procs :
          /\ procs[p] = "reaped"
          /\ procs' = [procs EXCEPT ![p] = "gone"]
    /\ isRunning' = FALSE
    /\ UNCHANGED <<busVars, mainVars,
                   envVars, watcherVars, pc, ret, event, Config, lastGood, currentCmd,
                   cmdMutex, timer, lastKill, h>>

-----------------------------------------------------------------------------

Next ==
    \/ EnvWrite
    \/ EnvWriteConfig
    \/ EnvRemove
    \/ InitialScan
    \/ TickerScan
    \/ WalkVisit
    \/ WalkError
    \/ WalkAbsent
    \/ WalkDone
    \/ DeletedNotify
    \/ ScanFinish
    \/ NotifyReturns
    \/ \E t \in DOMAIN pc : HandleConfig(t)
    \/ \E t \in DOMAIN pc : HandleSource(t)
    \/ \E t \in DOMAIN pc : HandleIgnore(t)
    \/ \E t \in DOMAIN pc : KillNoProcess(t)
    \/ \E t \in DOMAIN pc : KillSignalFails(t)
    \/ \E t \in DOMAIN pc : KillSignal(t)
    \/ \E t \in DOMAIN pc : KillGraceful(t)
    \/ \E t \in DOMAIN pc : KillTimeout(t)
    \/ Tick
    \/ \E t \in DOMAIN pc : SleepDone(t)
    \/ \E t \in DOMAIN pc : DeployCopyFails(t)
    \/ \E t \in DOMAIN pc : DeployStartFails(t)
    \/ \E t \in DOMAIN pc : DeployStart(t)
    \/ ChildExit
    \/ MonitorWaitReturns
    \/ MonitorClears

Spec == Init /\ [][Next]_vars

-----------------------------------------------------------------------------
(* FileWatcher.Subscribe and FileWatcher.Notify with any subscribers: the   *)
(* watcher alone, its handlers being functions that record their argument  *)

\* number of handlers subscribed to one watcher
MaxSubs == 2

\* the functions that are subscribed
Handlers == {"f", "g"}

\* all but the last element of a sequence
Front(s) == SubSeq(s, 1, Len(s) - 1)

\* a loop body that calls no handler
DeliverNone(logs, i, ev) == logs

\* handler(event) for subscriber i: the handler sees the event
Deliver(logs, i, ev) == [logs EXCEPT ![i] = Append(@, ev)]

BusInit ==
    /\ WatcherInit
    /\ DeployerInit
    /\ MainInit
    /\ pc = [t \in {Poll} |-> "start"]
    /\ subscribers = << >>
    /\ subIdx = 0
    /\ delivered = << >>

\* fw.subscribers = append(fw.subscribers, handler), before StartPolling
Subscribe ==
    /\ pc[Poll] = "start"
    /\ Len(subscribers) < MaxSubs
    /\ \E handler \in Handlers : subscribers' = Append(subscribers, handler)
    /\ delivered' = Append(delivered, << >>)
    /\ UNCHANGED <<subIdx, mainVars, envVars, watcherVars, deployerVars, pc, ret, event>>

\* for i, handler := range fw.subscribers { handler(event) }: the next
\* handler is called
NotifyCall ==
    /\ pc[Poll] = "handle"
    /\ subIdx < Len(subscribers)
    /\ delivered' = Deliver(delivered, subIdx + 1, event)
    /\ pc' = [pc EXCEPT ![Poll] = "subscriber"]
    /\ UNCHANGED <<subscribers, subIdx, mainVars, envVars, watcherVars, deployerVars,
                   ret, event>>

\* the handler returns and the loop goes on
HandlerReturns ==
    /\ pc[Poll] = "subscriber"
    /\ subIdx' = subIdx + 1
    /\ pc' = [pc EXCEPT ![Poll] = "handle"]
    /\ UNCHANGED <<subscribers, delivered, mainVars, envVars, watcherVars,
                   deployerVars, ret, event>>

\* the range is exhausted: Notify returns
NotifyLoopEnds ==
    /\ pc[Poll] = "handle"
    /\ subIdx = Len(subscribers)
    /\ subIdx' = 0
    /\ pc' = [pc EXCEPT ![Poll] = "handled"]
    /\ UNCHANGED <<subscribers, delivered, mainVars, envVars, watcherVars,
                   deployerVars, ret, event>>

\* ScanFinish; the recorded deliveries of the scan are forgotten with it
BusScanFinish ==
    /\ pc[Poll] = "deleted"
    /\ delPending = {}
    /\ knownFiles' = RemoveDeleted(MergeCurrent(knownFiles, currentFiles), currentFiles)
    /\ pc' = [pc EXCEPT ![Poll] = "ticker"]
    /\ emitted' = << >>
    /\ delivered' = [i \in DOMAIN delivered |-> << >>]
    /\ UNCHANGED <<subscribers, subIdx, mainVars, currentFiles, isInitial, walkIdx,
                   delPending, event, ret, envVars, deployerVars>>

BusNext ==
    \/ EnvWrite
    \/ EnvWriteConfig
    \/ EnvRemove
    \/ Subscribe
    \/ InitialScan
    \/ TickerScan
    \/ WalkVisit
    \/ WalkError
    \/ WalkAbsent
    \/ WalkDone
    \/ DeletedNotify
    \/ BusScanFinish
    \/ NotifyCall
    \/ HandlerReturns
    \/ NotifyLoopEnds
    \/ NotifyReturns

BusSpec == BusInit /\ [][BusNext]_vars

-----------------------------------------------------------------------------
(* FileWatcher.StartPolling and unmountShare: the program with interrupts.  *)
(* pollloop ranges over ticker.C, which is never closed, so pollloop does   *)
(* not return and no value is ever sent on done: the select can only take  *)
(* its sigChan case.                                                       *)

\* os.Exit has not been called
Up == mainPc # "exited"

\* an interrupt or SIGTERM arrives: signal.Notify sends it to sigChan, which
\* holds one signal and drops what does not fit
Interrupt ==
    /\ Up
    /\ sigChan = 0
    /\ sigChan' = 1
    /\ UNCHANGED <<mainPc, mounted, unmounts, busVars, envVars, watcherVars,
                   deployerVars, pc, ret, event>>

\* case <-sigChan: "Received interrupt signal, shutting down..."
SelectSignal ==
    /\ mainPc = "select"
    /\ sigChan = 1
    /\ sigChan' = 0
    /\ mainPc' = "unmount"
    /\ UNCHANGED <<mounted, unmounts, busVars, envVars, watcherVars, deployerVars,
                   pc, ret, event>>

\* unmountShare: umount succeeds, "Successfully unmounted"
UnmountOk ==
    /\ mainPc = "unmount"
    /\ mounted' = FALSE
    /\ unmounts' = unmounts + 1
    /\ mainPc' = "exit"
    /\ UNCHANGED <<sigChan, busVars, envVars, watcherVars, deployerVars, pc, ret,
                   event>>

\* unmountShare: umount fails, "Warning: Failed to unmount"; the polling
\* goroutine and the child are not stopped first and may keep the share busy
UnmountFails ==
    /\ mainPc = "unmount"
    /\ unmounts' = unmounts + 1
    /\ mainPc' = "exit"
    /\ UNCHANGED <<mounted, sigChan, busVars, envVars, watcherVars, deployerVars,
                   pc, ret, event>>

\* os.Exit(0): every goroutine of the program ends
Exit ==
    /\ mainPc = "exit"
    /\ mainPc' = "exited"
    /\ UNCHANGED <<mounted, unmounts, sigChan, busVars, envVars, watcherVars,
                   deployerVars, pc, ret, event>>

ShutdownNext ==
    \/ Interrupt
    \/ SelectSignal
    \/ UnmountOk
    \/ UnmountFails
    \/ Exit
    \/ Up /\ EnvWrite
    \/ Up /\ EnvWriteConfig
    \/ Up /\ EnvRemove
    \/ Up /\ InitialScan
    \/ Up /\ TickerScan
    \/ Up /\ WalkVisit
    \/ Up /\ WalkError
    \/ Up /\ WalkAbsent
    \/ Up /\ WalkDone
    \/ Up /\ DeletedNotify
    \/ Up /\ ScanFinish
    \/ Up /\ NotifyReturns
    \/ Up /\ \E t \in DOMAIN pc : HandleConfig(t)
    \/ Up /\ \E t \in DOMAIN pc : HandleSource(t)
    \/ Up /\ \E t \in DOMAIN pc : HandleIgnore(t)
    \/ Up /\ \E t \in DOMAIN pc : KillNoProcess(t)
    \/ Up /\ \E t \in DOMAIN pc : KillSignalFails(t)
    \/ Up /\ \E t \in DOMAIN pc : KillSignal(t)
    \/ Up /\ \E t \in DOMAIN pc : KillGraceful(t)
    \/ Up /\ \E t \in DOMAIN pc : KillTimeout(t)
    \/ Up /\ Tick
    \/ Up /\ \E t \in DOMAIN pc : SleepDone(t)
    \/ Up /\ \E t \in DOMAIN pc : DeployCopyFails(t)
    \/ Up /\ \E t \in DOMAIN pc : DeployStartFails(t)
    \/ Up /\ \E t \in DOMAIN pc : DeployStart(t)
    \/ Up /\ ChildExit
    \/ Up /\ MonitorWaitReturns
    \/ Up /\ MonitorClears

ShutdownSpec == Init /\ [][ShutdownNext]_vars

-----------------------------------------------------------------------------
(* One Deployer with two goroutines that each call Redeploy once, and a     *)
(* goroutine that keeps calling IsRunning                                  *)

Callers == {"a", "b"}
Observer == "o"

RaceInit ==
    /\ WatcherInit
    /\ DeployerInit
    /\ MainInit
    /\ subscribers = << >>
    /\ subIdx = 0
    /\ delivered = << >>
    /\ pc = [t \in Callers \cup {Observer} |->
                IF t \in Callers THEN "kill" ELSE "isrunning"]

\* IsRunning: Lock(); defer Unlock(); return d.isRunning
IsRunning(t) ==
    /\ pc[t] = "isrunning"
    /\ cmdMutex = Free
    /\ pc' = [pc EXCEPT ![t] = IF isRunning THEN "true" ELSE "false"]
    /\ UNCHANGED <<busVars, mainVars, envVars, watcherVars, deployerVars, ret, event>>

\* the caller of IsRunning has its answer and calls again
IsRunningAgain(t) ==
    /\ pc[t] \in {"true", "false"}
    /\ pc' = [pc EXCEPT ![t] = "isrunning"]
    /\ UNCHANGED <<busVars, mainVars, envVars, watcherVars, deployerVars, ret, event>>

\* Kill takes the lock
KillStep(t) == KillNoProcess(t) \/ KillSignalFails(t) \/ KillSignal(t)
\* Kill's select takes a case
SelectStep(t) == KillGraceful(t) \/ KillTimeout(t)
\* Deploy takes the lock and returns
DeployStep(t) == DeployCopyFails(t) \/ DeployStartFails(t) \/ DeployStart(t)

RaceNext ==
    \/ \E t \in DOMAIN pc : KillNoProcess(t)
    \/ \E t \in DOMAIN pc : KillSignalFails(t)
    \/ \E t \in DOMAIN pc : KillSignal(t)
    \/ \E t \in DOMAIN pc : KillGraceful(t)
    \/ \E t \in DOMAIN pc : KillTimeout(t)
    \/ Tick
    \/ \E t \in DOMAIN pc : SleepDone(t)
    \/ \E t \in DOMAIN pc : DeployCopyFails(t)
    \/ \E t \in DOMAIN pc : DeployStartFails(t)
    \/ \E t \in DOMAIN pc : DeployStart(t)
    \/ \E t \in DOMAIN pc : IsRunning(t)
    \/ \E t \in DOMAIN pc : IsRunningAgain(t)
    \/ ChildExit
    \/ MonitorWaitReturns
    \/ MonitorClears

\* Every goroutine that can run is scheduled, time passes, and sync.Mutex
\* hands the lock to a goroutine that keeps waiting for it (its starvation
\* mode).  Nothing obliges a child to exit.
RaceFairness ==
    /\ \A t \in Callers \cup {Observer} :
          /\ SF_vars(KillStep(t))
          /\ WF_vars(SelectStep(t))
          /\ WF_vars(SleepDone(t))
          /\ SF_vars(DeployStep(t))
          /\ SF_vars(IsRunning(t))
          /\ WF_vars(IsRunningAgain(t))
    /\ WF_vars(Tick)
    /\ WF_vars(MonitorWaitReturns)
    /\ SF_vars(MonitorClears)

RaceSpec == RaceInit /\ [][RaceNext]_vars /\ RaceFairness

-----------------------------------------------------------------------------
(* The program with its scheduling: the polling goroutine and the exit      *)
(* monitors run when they can, the ticker keeps ticking and time passes.    *)
(* Nothing obliges the environment to change the tree or a child to exit.   *)

\* a step of the goroutine that runs pollloop
PollStep ==
    \/ InitialScan
    \/ TickerScan
    \/ WalkVisit
    \/ WalkAbsent
    \/ WalkDone
    \/ DeletedNotify
    \/ ScanFinish
    \/ NotifyReturns
    \/ HandleConfig(Poll)
    \/ HandleSource(Poll)
    \/ HandleIgnore(Poll)
    \/ KillStep(Poll)
    \/ SelectStep(Poll)
    \/ SleepDone(Poll)
    \/ DeployStep(Poll)

FairSpec ==
    /\ Init
    /\ [][Next]_vars
    /\ WF_vars(PollStep)
    /\ WF_vars(Tick)
    /\ WF_vars(MonitorWaitReturns)
    /\ WF_vars(MonitorClears)

-----------------------------------------------------------------------------
(* Properties *)

\* number of events of one type for one path passed to Notify by the scan
Count(type, relPath) ==
    Cardinality({i \in 1..Len(emitted) :
                    emitted[i].ChangeType = type /\ emitted[i].RelPath = relPath})

\* the non-initial scan has passed all its events to Notify and every
\* handler has returned; knownFiles is still the previous snapshot
ScanEmittedAll == pc[Poll] = "deleted" /\ delPending = {} /\ ~isInitial

StartedProcs == {p \in DOMAIN procs : procs[p] # "unborn"}

\* C1: at most one child process started by the supervisor is alive at any
\* time, whatever events arrive and however earlier children ended.
C1_AtMostOneAlive == Cardinality(Alive) <= 1

\* a second child is alive after the first one has ended
C1_Witness ==
    /\ Cardinality(StartedProcs) >= 2
    /\ currentCmd # Nil
    /\ Alive = {currentCmd}

\* C2: whenever Deploy stores the handle of a newly started process, the
\* stored handle is empty at that moment: a set handle is never overwritten.
C2_DeployStoresIntoEmptyHandle ==
    [][(currentCmd' # currentCmd /\ currentCmd' # Nil) => currentCmd = Nil]_vars

\* C3: whenever Kill has returned, on every path, the stored handle is empty
\* and the running flag is false.
C3_KillAlwaysClears ==
    \A t \in DOMAIN pc :
        pc[t] = "sleep" => (currentCmd = Nil /\ isRunning = FALSE)

\* C4: Kill force-terminates the child only when the full grace period has
\* elapsed without the child exiting within it, and then returns without
\* error, the handle cleared and the running flag false; a Kill that took
\* another path has not force-terminated.
C4_ForceOnlyAfterGrace ==
    /\ lastKill.path = "timeout" =>
          /\ lastKill.forcedAt = GracePeriod
          /\ lastKill.exitAt \notin 0..(GracePeriod - 1)
          /\ lastKill.err = FALSE
          /\ currentCmd = Nil
          /\ isRunning = FALSE
    /\ "SIGKILL" \in lastKill.sigs => lastKill.path = "timeout"

\* Kill has returned after force-terminating a child that ignored SIGTERM
C4_Witness ==
    /\ pc[Poll] = "sleep"
    /\ lastKill.path = "timeout"
    /\ lastKill.sigs = {"SIGTERM", "SIGKILL"}
    /\ lastKill.exitAt = -1

\* C5: Kill on a supervisor without a process handle returns success, sends
\* no signal and leaves handle, running flag, configuration and processes as
\* they are.
C5_KillIdleIsNoOp ==
    [][\A t \in DOMAIN pc :
          (pc[t] = "kill" /\ currentCmd = Nil /\ pc'[t] # "kill") =>
             /\ pc'[t] = "sleep"
             /\ lastKill'.err = FALSE
             /\ lastKill'.sigs = {}
             /\ UNCHANGED <<currentCmd, isRunning, Config, procs>>]_vars

\* Kill has returned from its "No process to kill" branch
C5_Witness ==
    /\ pc[Poll] = "sleep"
    /\ lastKill.path = "noproc"
    /\ currentCmd = Nil

\* C6: the initial scan passes no event to Notify, so that no Handle, Kill
\* or Deploy runs, whatever the tree contains; when it has returned the
\* stored snapshot is the one it collected.
C6_InitialScanSilent ==
    isInitial =>
       /\ emitted = << >>
       /\ pc[Poll] \in {"start", "walk", "deleted", "ticker"}
       /\ h = NoHandle
       /\ lastKill = NoKill
       /\ StartedProcs = {}
       /\ currentCmd = Nil
       /\ pc[Poll] = "ticker" => knownFiles = currentFiles

\* the initial scan has returned from a populated tree
C6_Witness ==
    /\ isInitial
    /\ pc[Poll] = "ticker"
    /\ Cardinality(DOMAIN knownFiles) >= 2

\* C7: a non-initial scan with previous snapshot P and current snapshot C
\* emits exactly one Created for each path of C absent from P, exactly one
\* Modified for each path of both whose size or modTime differs, and no
\* Created or Modified for any other path.
C7_CreatedModifiedExact ==
    ScanEmittedAll =>
       \A p \in Paths :
          /\ Count("created", p) =
                (IF p \in DOMAIN currentFiles \ DOMAIN knownFiles THEN 1 ELSE 0)
          /\ Count("modified", p) =
                (IF /\ p \in DOMAIN currentFiles \cap DOMAIN knownFiles
                    /\ \/ knownFiles[p].Size # currentFiles[p].Size
                       \/ knownFiles[p].ModTime # currentFiles[p].ModTime
                 THEN 1 ELSE 0)

\* a scan that found one file modified in one field and others unchanged
C7_Witness ==
    /\ ScanEmittedAll
    /\ Len(emitted) = 1
    /\ emitted[1].ChangeType = "modified"
    /\ knownFiles[emitted[1].RelPath].ModTime = currentFiles[emitted[1].RelPath].ModTime
    /\ \E p \in DOMAIN currentFiles \cap DOMAIN knownFiles :
          knownFiles[p] = currentFiles[p]

\* C8: a non-initial scan emits exactly one Deleted for each path of the
\* previous snapshot absent from the current one and for no other path, and
\* every Deleted follows all Created and Modified of the scan, after the walk.
C8_DeletedExactAndLast ==
    /\ ScanEmittedAll =>
          \A p \in Paths :
             Count("deleted", p) =
                (IF p \in DOMAIN knownFiles \ DOMAIN currentFiles THEN 1 ELSE 0)
    /\ \A i \in 1..Len(emitted) :
          emitted[i].ChangeType = "deleted" =>
             /\ walkIdx > Len(WalkOrder)
             /\ \A j \in i..Len(emitted) : emitted[j].ChangeType = "deleted"

\* a scan that emitted a Created or Modified and then a Deleted
C8_Witness ==
    /\ ScanEmittedAll
    /\ Len(emitted) = 2
    /\ emitted[1].ChangeType \in {"created", "modified"}
    /\ emitted[2].ChangeType = "deleted"
    /\ DOMAIN currentFiles # {}

\* C9: Handle calls Redeploy exactly once for the config filename and for
\* any other path prefixed by the configured source location, and makes no
\* call for every other path.
C9_ClassifiesByConfiguredPrefix ==
    h.done =>
       /\ h.redeploys =
             (IF h.ev.RelPath = CONFIG_ID THEN 1
              ELSE IF HasPrefix(h.ev.RelPath, h.cfg[1].SourceLocation) THEN 1
              ELSE 0)
       /\ h.kills = h.redeploys
       /\ h.deploys = h.redeploys

\* C10: the configuration is always the value of the most recent successful
\* load, never absent and never a value that no load returned.
C10_ConfigIsLastGoodLoad ==
    /\ Config = lastGood
    /\ Config # << >>
    /\ Config[1] \in DeployConfig

\* a reload has failed on a deploy.json that does not parse
C10_Witness ==
    /\ pc[Poll] = "handled"
    /\ event.RelPath = CONFIG_ID
    /\ cfgFile.kind = "badjson"
    /\ h.redeploys = 1

\* C11: a Deploy that fails at the copy step or at process start starts no
\* process and leaves the stored handle and the running flag as they are, so
\* that when the Redeploy it ends returns the running flag is false and no
\* child is alive.
C11_FailedDeployLeavesIdle ==
    [][\A t \in DOMAIN pc :
          (pc[t] = "deploy" /\ pc'[t] = "handled" /\ procs' = procs) =>
             /\ UNCHANGED <<currentCmd, isRunning>>
             /\ isRunning' = FALSE
             /\ Alive' = {}]_vars

\* Notify is running its loop over the subscribers
InNotify == pc[Poll] \in {"handle", "subscriber"}

\* number of subscribers whose handler has been called with the current event
Called == IF pc[Poll] = "subscriber" THEN subIdx + 1 ELSE subIdx

\* C12: every event passed to Notify reaches every subscriber exactly once,
\* in subscription order, before Notify returns; what a subscriber has
\* received during a scan is the sequence of the events the scan passed to
\* Notify, in that order, nothing added, merged, dropped or held back.
C12_DeliveredOnceInOrder ==
    /\ Len(delivered) = Len(subscribers)
    /\ InNotify => Called \in 0..Len(subscribers)
    /\ \A i \in 1..Len(subscribers) :
          delivered[i] = IF InNotify /\ i > Called THEN Front(emitted) ELSE emitted

\* two subscribers have both received the two events of one scan
C12_Witness ==
    /\ Len(subscribers) = 2
    /\ pc[Poll] = "deleted"
    /\ Len(emitted) = 2
    /\ delivered[1] = emitted
    /\ delivered[2] = emitted

\* C13: unmountShare is never called twice, and when the process has exited
\* the share has been released, by exactly one call.
C13_ReleasedExactlyOnce ==
    /\ unmounts <= 1
    /\ mainPc = "exited" => (unmounts = 1 /\ ~mounted)

\* C14: the stored snapshot changes in no step but the one in which a scan
\* returns, and in that step it becomes the snapshot the scan collected:
\* the paths the scan visited, each with the size and modTime it read.
C14_SnapshotReplacedAtReturn ==
    [][/\ knownFiles' # knownFiles => (pc[Poll] = "deleted" /\ pc'[Poll] = "ticker")
       /\ (pc[Poll] = "deleted" /\ pc'[Poll] = "ticker") =>
             /\ knownFiles' = currentFiles
             /\ currentFiles' = currentFiles]_vars

\* a scan has returned that found one path gone and another one changed
C14_Witness ==
    /\ pc[Poll] = "ticker"
    /\ ~isInitial
    /\ knownFiles = currentFiles
    /\ DOMAIN knownFiles # Paths
    /\ \E p \in DOMAIN knownFiles : knownFiles[p] # [ModTime |-> 1, Size |-> 1]

\* the positions of a caller inside Redeploy
InRedeploy == {"kill", "select", "sleep", "deploy"}

\* C15: a scan begins only from pollloop's own loop, when the scan before it
\* has returned and no handler, Kill, pause or Deploy it invoked is still
\* running; at most one Redeploy is in progress at any time.
C15_ScansNeverOverlap ==
    [][/\ (pc'[Poll] = "walk" /\ walkIdx' = 1 /\ pc[Poll] # "walk") =>
             /\ pc[Poll] \in {"start", "ticker"}
             /\ event = NoEvent
             /\ h = NoHandle
             /\ lastKill = NoKill
             /\ cmdMutex = Free
       /\ Cardinality({t \in DOMAIN pc : pc[t] \in InRedeploy}) <= 1]_vars

\* a scan begins after a scan whose handler redeployed: its child is alive
C15_Witness ==
    /\ pc[Poll] = "walk"
    /\ walkIdx = 1
    /\ ~isInitial
    /\ currentCmd # Nil
    /\ procs[currentCmd] = "alive"

\* C16: the step in which an exit monitor's cmd.Wait() returns changes
\* neither handle, running flag nor lock; the step in which it takes the
\* lock sets the running flag to false, leaves the handle as it is and
\* gives the lock back; the lock is never held by a monitor that waits.
C16_MonitorTouchesOnlyFlag ==
    [][/\ \A p \in DOMAIN procs :
             /\ (procs[p] = "exited" /\ procs'[p] = "reaped") =>
                   UNCHANGED <<currentCmd, isRunning, cmdMutex, Config, pc>>
             /\ (procs[p] = "reaped" /\ procs'[p] = "gone") =>
                   /\ cmdMutex = Free
                   /\ cmdMutex' = Free
                   /\ isRunning' = FALSE
                   /\ UNCHANGED <<currentCmd, Config, pc>>
       /\ cmdMutex \in {Free} \cup DOMAIN pc]_vars

\* a child exited on its own and its monitor has cleared the running flag:
\* the handle still names that child
C16_Witness ==
    /\ currentCmd # Nil
    /\ procs[currentCmd] = "gone"
    /\ isRunning = FALSE
    /\ cmdMutex = Free

\* C17: with two concurrent callers of Redeploy two children can be alive
\* at once; this happens only when both calls have gone through Kill and
\* Deploy, there are then exactly two, and the stored handle is one of them.
C17_TwoAliveOneStored ==
    Cardinality(Alive) >= 2 =>
       /\ Cardinality(Alive) = 2
       /\ currentCmd \in Alive
       /\ \A t \in Callers : pc[t] = "handled"
       /\ h.kills = 2

\* both calls of Redeploy have returned: two children are alive and the
\* handle names one of them only
C17_Witness ==
    /\ Cardinality(Alive) = 2
    /\ currentCmd \in Alive
    /\ \E p \in Alive : p # currentCmd
    /\ h.kills = 2
    /\ h.deploys = 2

\* C19: every call of Kill returns, also when the child never exits on its
\* own, and the lock it held is released; every caller of Kill, Deploy or
\* IsRunning and every exit monitor that waits for the lock gets it.
C19_KillReturnsLockFreed ==
    /\ \A t \in Callers : (pc[t] \in {"kill", "select"}) ~> (pc[t] = "sleep")
    /\ \A t \in Callers : (pc[t] = "deploy") ~> (pc[t] = "handled")
    /\ (pc[Observer] = "isrunning") ~> (pc[Observer] \in {"true", "false"})
    /\ \A p \in 1..MaxProcs : (procs[p] = "reaped") ~> (procs[p] = "gone")
    /\ (cmdMutex # Free) ~> (cmdMutex = Free)

\* a Kill has returned from its timeout case, the child never having exited,
\* while the caller of IsRunning waited for the lock
C19_Witness ==
    /\ \E t \in Callers : pc[t] = "sleep"
    /\ pc[Observer] = "isrunning"
    /\ lastKill.path = "timeout"
    /\ lastKill.exitAt = -1
    /\ cmdMutex = Free

\* C18: once a Redeploy has returned, as long as the process of the stored
\* handle is alive, IsRunning returns true.
C18_SuccessorKeepsRunningFlag ==
    (/\ pc[Poll] \notin InRedeploy
     /\ currentCmd # Nil
     /\ procs[currentCmd] = "alive"
     /\ cmdMutex = Free) => isRunning

\* what the tree holds for a path differs from the stored snapshot
Pending(p) ==
    \/ p \in DOMAIN disk /\ p \notin DOMAIN knownFiles
    \/ p \in DOMAIN disk /\ p \in DOMAIN knownFiles /\ knownFiles[p] # disk[p]
    \/ p \notin DOMAIN disk /\ p \in DOMAIN knownFiles

\* the tree does not change any more
Stable == edits = MaxEdits

\* the path is the configuration file or has the source location as prefix
Relevant(p) == p = CONFIG_ID \/ HasPrefix(p, Config[1].SourceLocation)

\* C20: when the configuration file or a file under the source location
\* differs from the stored snapshot and the tree then stays as it is, a
\* scan passes an event for that path to Notify and a Deploy is attempted.
C20_ChangeLeadsToDeploy ==
    \A p \in Paths :
       /\ (pc[Poll] = "ticker" /\ Stable /\ Pending(p) /\ Relevant(p)) ~>
             (\E i \in 1..Len(emitted) : emitted[i].RelPath = p)
       /\ (pc[Poll] = "ticker" /\ Stable /\ Pending(p) /\ Relevant(p)) ~>
             (h.deploys = 1)

====
